---- MODULE Spec2Model ----
(***************************************************************************)
(* A model of tap-firestore: FirestoreStream.get_records (the paginated   *)
(* extraction loop), FirestoreStream.schema (the cached schema property), *)
(* FirestoreStream._get_firestore_client (credential selection) and       *)
(* TapFirestore.discover_streams.                                          *)
(***************************************************************************)
EXTENDS Integers, Sequences, FiniteSets, TLC

(* ---- bounds of the model ---------------------------------------------- *)
MaxId == 3          \* document identities are 1..MaxId (ordered like __name__)
MaxVal == 2         \* replication-key values are 0..MaxVal; 0 is the falsy one ("" or 0)
MaxBatch == 2       \* batch_size ranges over 1..MaxBatch
MaxLimit == 2       \* limit ranges over 0..MaxLimit; 0 models None (falsy, no cap)
MaxRuns == 2        \* successive runs of get_records modelled by the multi-run specification
MaxWrites == 1      \* writes of other clients during one run (concurrent specification)
MaxReads == 2       \* reads of the schema property per stream instance
MaxStreams == 2     \* stream instances in the schema specification

Ids == 1..MaxId
Vals == 0..MaxVal
MaxQueries == MaxId + 2   \* the query counter saturates here (an endless loop keeps querying)

NoVal == 0 - 1
Min(a, b) == IF a <= b THEN a ELSE b

(* ---- documents --------------------------------------------------------- *)
\* A snapshot: its identity, what to_dict() returns ("absent" is None, "empty"
\* is {}, "data" a non-empty mapping) and its replication-key field (NoVal when
\* the body has no such field).
NoDoc == [id |-> 0, body |-> "none", rk |-> NoVal]
Snapshot(i, b, v) == [id |-> i, body |-> b, rk |-> v]

\* The documents a collection slot can hold when the replication-key field has
\* values from vs.
SlotDocs(i, vs) ==
    {Snapshot(i, "absent", NoVal), Snapshot(i, "empty", NoVal)}
        \cup {Snapshot(i, "data", v) : v \in vs}

Collections(vs) ==
    {c \in [Ids -> {NoDoc} \cup UNION {SlotDocs(i, vs) : i \in Ids}] :
        \A i \in Ids : c[i] = NoDoc \/ c[i].id = i}

(* ---- checkpoint values ------------------------------------------------- *)
\* state["replication_key_value"]: absent, an ISO-8601 string of instant v, or a
\* raw (string-typed) value v.
NoState == [kind |-> "none", v |-> 0]
IsoString(v) == [kind |-> "iso", v |-> v]
RawValue(v) == [kind |-> "raw", v |-> v]

\* Python truthiness of a stored value: None and "" (raw 0) are falsy.
StateTruthy(st) == st.kind # "none" /\ ~(st.kind = "raw" /\ st.v = 0)

\* datetime.fromisoformat(s.replace("Z", "+00:00")): the instant the string names.
FromIsoFormat(s) == [kind |-> "datetime", v |-> s.v]

\* Python truthiness of the value get_starting_replication_key_value returns.
Truthy(sv) == sv.kind # "none" /\ ~(sv.kind = "raw" /\ sv.v = 0)

\* get_starting_replication_key_value: a truthy stored value of a timestamp key is
\* parsed back into a datetime, anything else is returned as stored.
GetStartingReplicationKeyValue(st, type) ==
    IF StateTruthy(st) /\ type = "timestamp" THEN FromIsoFormat(st) ELSE st

\* _convert_value on a replication-key field: a datetime becomes its ISO string,
\* any other scalar passes through.
ConvertValue(v, type) == IF type = "timestamp" THEN IsoString(v) ELSE RawValue(v)

(* ---- credentials ------------------------------------------------------- *)
\* A configured credential source: not given, the empty string, well-formed
\* service-account JSON, well-formed JSON whose private_key holds literal "\n"
\* (inline and base64 only), or something that does not parse / cannot be read.
PathKinds == {"none", "blank", "valid", "malformed"}
JsonKinds == {"none", "blank", "valid", "escaped", "malformed"}
CredConfigs == [path : PathKinds, json : JsonKinds, base64 : JsonKinds]
NoCreds == [path |-> "none", json |-> "none", base64 |-> "none"]

\* Python truthiness of a config string.
Given(k) == k \notin {"none", "blank"}

\* _normalize_credentials: literal "\n" in private_key becomes a newline.
NormalizeCredentials(k) == IF k = "escaped" THEN "valid" ELSE k

\* The if / elif chain of _get_firestore_client: which source the client is built from.
CredentialSourcePathFirst(cr) ==
    IF Given(cr.path) THEN "path"
    ELSE IF Given(cr.json) THEN "json"
    ELSE IF Given(cr.base64) THEN "base64"
    ELSE "default"

CredentialSource(cr) ==
    IF Given(cr.base64) THEN "base64"
    ELSE IF Given(cr.json) THEN "json"
    ELSE IF Given(cr.path) THEN "path"
    ELSE "default"

NoClient == [source |-> "unbuilt", status |-> "none"]

\* _get_firestore_client: the client built, or the exception re-raised.
GetFirestoreClient(cr) ==
    LET src == CredentialSource(cr)
        loaded == CASE src = "base64" -> NormalizeCredentials(cr.base64)
                    [] src = "json" -> NormalizeCredentials(cr.json)
                    [] src = "path" -> cr.path
                    [] OTHER -> "valid"
    IN  [source |-> src, status |-> IF loaded = "valid" THEN "ok" ELSE "error"]

(* ---- records ------------------------------------------------------------ *)
MaxTime == 2        \* extraction timestamps are 1..MaxTime

\* The field names a document body can hold: the two names get_records also
\* uses for its synthetic fields, and an ordinary one.
FieldNames == {"_id", "_sdc_extracted_at", "name"}

\* A field value of the store: a plain scalar or a datetime.
FieldValues == {RawValue(v) : v \in Vals} \cup {[kind |-> "datetime", v |-> v] : v \in Vals}

\* The mappings to_dict() can return (the empty one included).
Bodies == UNION {[S -> FieldValues] : S \in SUBSET FieldNames}

\* _convert_value on a field: a datetime becomes its ISO string, a plain scalar
\* passes through.
ConvertField(x) == IF x.kind = "datetime" THEN IsoString(x.v) ELSE x

\* _get_current_timestamp: the clock's instant as an ISO string.
GetCurrentTimestamp(now) == IsoString(now)

\* Lines 397-404: the record starts as {_id, _sdc_extracted_at}, then every
\* field of the body is assigned into it under its own name.
BuildRecord(id, body, now) ==
    [k \in {"_id", "_sdc_extracted_at"} \cup DOMAIN body |->
        IF k \in DOMAIN body THEN ConvertField(body[k])
        ELSE IF k = "_id" THEN RawValue(id)
        ELSE GetCurrentTimestamp(now)]

NoBody == [k \in {} |-> RawValue(0)]
NoRec == [status |-> "none", id |-> 0, absent |-> TRUE, body |-> NoBody, now |-> 0,
          record |-> NoBody]

VARIABLES
    collection,        \* the store: Ids -> snapshot or NoDoc
    config,            \* the stream's configuration (immutable)
    state,             \* the checkpoint's replication_key_value
    pc,                \* position of get_records
    starting_value,    \* what get_starting_replication_key_value returned (NoStart: None)
    total_extracted,
    last_doc,
    batch_limit,
    docs,              \* the batch being processed (snapshots)
    idx,               \* position of the for loop in docs
    yielded,           \* the records yielded so far by this run
    nqueries,          \* batch queries issued by this run (saturating at MaxQueries)
    lastQuery,         \* the last batch query: its limit, the records yielded before it, its size
    everYielded,       \* identities yielded by any run
    runs,              \* completed runs
    stable,            \* identities untouched by other writers since the run started
    writes,            \* writes of other clients so far
    creds,             \* credentials_path / credentials_json / credentials_base64
    client,            \* the client _get_firestore_client built
    streams,           \* stream instances of the schema specification
    rec                \* one document put through the body of the for loop

pagVars == <<pc, starting_value, total_extracted, last_doc, batch_limit, docs, idx,
             yielded, nqueries, lastQuery, everYielded>>
envVars == <<collection, config, state, runs, stable, writes>>
auxVars == <<creds, client, streams, rec>>
vars == <<pagVars, envVars, auxVars>>

(* ---- the batch query ---------------------------------------------------- *)
NoStart == [kind |-> "none", v |-> 0]

\* if self.replication_key: ... if starting_value: the run filters on the key.
ResumeFilterApplied(rk, sv) == rk /\ Truthy(sv)

\* FieldFilter(replication_key, ">", starting_value): the document has the field
\* and its value is strictly greater.
FieldFilter(d, sv) == d.rk # NoVal /\ d.rk > sv.v

\* query.start_after(last_doc) under order_by("__name__"): identities strictly
\* after the last yielded document's.
StartAt(i, last) == last = NoDoc \/ i >= last.id

StartAfter(i, last) == last = NoDoc \/ i > last.id

\* The identities the batch query ranges over, in the store as it is now.
Candidates(coll, filtered, sv, last) ==
    {i \in Ids : /\ coll[i] # NoDoc
                 /\ filtered => FieldFilter(coll[i], sv)
                 /\ StartAfter(i, last)}

\* order_by("__name__"): ascending document identity.
OrderedBeforeDescending(a, b) == a > b

OrderedBefore(a, b) == a < b

\* The k-th identity of S in the query's order.
Nth(S, k) == CHOOSE i \in S : Cardinality({j \in S : OrderedBefore(j, i)}) = k - 1

\* list(query.limit(n).stream()): the first n candidates in identity order.
Stream(coll, filtered, sv, last, n) ==
    LET S == Candidates(coll, filtered, sv, last)
        m == Min(n, Cardinality(S))
    IN  [k \in 1..m |-> coll[Nth(S, k)]]

\* if self.limit: a limit of None or 0 caps nothing.
HasLimit(cfg) == cfg.limit # 0

\* remaining <= 0: the quota is used up, no query is issued.
QuotaExhausted(cfg, total) == HasLimit(cfg) /\ cfg.limit - total <= 0

\* batch_limit = batch_size, or min(batch_size, remaining) under a limit.
BatchLimitUncapped(cfg, total) == cfg.batch_size

BatchLimit(cfg, total) ==
    IF HasLimit(cfg) THEN Min(cfg.batch_size, cfg.limit - total) ELSE cfg.batch_size

\* if doc_dict is None: continue
SkipFalsy(d) == d.body \in {"absent", "empty"}

SkipDoc(d) == d.body = "absent"

\* if len(docs) < batch_limit: break
ShortBatchLe(n, lim) == n <= lim

ShortBatch(n, lim) == n < lim

Bump(n) == IF n < MaxQueries THEN n + 1 ELSE n

(* ---- get_records -------------------------------------------------------- *)
\* Lines 328-358: the client, the resume filter, the counters.
StartRun ==
    /\ pc = "idle"
    /\ client' = GetFirestoreClient(creds)
    /\ IF client'.status = "error"
         THEN /\ pc' = "failed"
              /\ UNCHANGED <<starting_value, total_extracted, last_doc, yielded,
                             nqueries, stable>>
         ELSE /\ pc' = "loop"
              /\ starting_value' =
                    IF config.replication_key
                      THEN GetStartingReplicationKeyValue(state, config.replication_key_type)
                      ELSE NoStart
              /\ total_extracted' = 0
              /\ last_doc' = NoDoc
              /\ yielded' = <<>>
              /\ nqueries' = 0
              /\ stable' = {i \in Ids : collection[i] # NoDoc}
    /\ UNCHANGED <<batch_limit, docs, idx, lastQuery, everYielded>>
    /\ UNCHANGED <<collection, config, state, runs, writes, creds, streams, rec>>

\* Lines 360-382: the head of the while loop. With the quota used up the loop
\* ends without a query; otherwise one batch query is issued, and an empty
\* batch ends the loop.
FetchBatch ==
    /\ pc = "loop"
    /\ IF QuotaExhausted(config, total_extracted)
         THEN /\ pc' = "done"
              /\ UNCHANGED <<batch_limit, docs, idx, nqueries, lastQuery>>
         ELSE LET bl == BatchLimit(config, total_extracted)
                  ds == Stream(collection,
                               ResumeFilterApplied(config.replication_key, starting_value),
                               starting_value, last_doc, bl)
              IN  /\ batch_limit' = bl
                  /\ docs' = ds
                  /\ idx' = 1
                  /\ nqueries' = Bump(nqueries)
                  /\ lastQuery' = [limit |-> bl, before |-> Len(yielded), size |-> Len(ds)]
                  /\ pc' = IF ds = <<>> THEN "done" ELSE "batch"
    /\ UNCHANGED <<starting_value, total_extracted, last_doc, yielded, everYielded>>
    /\ UNCHANGED <<envVars, auxVars>>

\* Lines 390-408: one turn of the for loop: skip the document or yield it.
ProcessDoc ==
    /\ pc = "batch"
    /\ idx <= Len(docs)
    /\ LET d == docs[idx]
       IN  IF SkipDoc(d)
             THEN UNCHANGED <<total_extracted, last_doc, yielded, everYielded>>
             ELSE /\ total_extracted' = total_extracted + 1
                  /\ last_doc' = d
                  /\ yielded' = Append(yielded, d)
                  /\ everYielded' = everYielded \cup {d.id}
    /\ idx' = idx + 1
    /\ UNCHANGED <<pc, starting_value, batch_limit, docs, nqueries, lastQuery>>
    /\ UNCHANGED <<envVars, auxVars>>

\* Lines 410-412: a batch shorter than requested ends the loop.
EndBatch ==
    /\ pc = "batch"
    /\ idx > Len(docs)
    /\ pc' = IF ShortBatch(Len(docs), batch_limit) THEN "done" ELSE "loop"
    /\ UNCHANGED <<starting_value, total_extracted, last_doc, batch_limit, docs, idx,
                   yielded, nqueries, lastQuery, everYielded>>
    /\ UNCHANGED <<envVars, auxVars>>

(* ---- one run over a static collection ----------------------------------- *)
Configs ==
    {cfg \in [batch_size : 1..MaxBatch, limit : 0..MaxLimit,
              replication_key : BOOLEAN, replication_key_type : {"timestamp", "string"}] :
        ~cfg.replication_key => cfg.replication_key_type = "timestamp"}

\* The checkpoint values a stream of this configuration can have stored.
States(cfg) ==
    IF ~cfg.replication_key THEN {NoState}
    ELSE {NoState} \cup {ConvertValue(v, cfg.replication_key_type) : v \in Vals}

NoQuery == [limit |-> 0, before |-> 0, size |-> 0]

InitRun ==
    /\ pc = "idle"
    /\ starting_value = NoStart
    /\ total_extracted = 0
    /\ last_doc = NoDoc
    /\ batch_limit = 0
    /\ docs = <<>>
    /\ idx = 1
    /\ yielded = <<>>
    /\ nqueries = 0
    /\ lastQuery = NoQuery
    /\ everYielded = {}
    /\ runs = 0
    /\ stable = {}
    /\ writes = 0

Init ==
    /\ config \in Configs
    /\ collection \in (IF config.replication_key THEN Collections(Vals)
                                                  ELSE Collections({NoVal}))
    /\ state \in States(config)
    /\ InitRun
    /\ creds = NoCreds
    /\ client = NoClient
    /\ rec = NoRec
    /\ streams = <<>>

Next == StartRun \/ FetchBatch \/ ProcessDoc \/ EndBatch

Spec == Init /\ [][Next]_vars

FairSpec == Spec /\ WF_vars(Next)

(* ---- successive runs ----------------------------------------------------- *)
\* The framework's checkpoint write at the end of a run: the cursor is the
\* replication-key value of the last record yielded (as emitted, after
\* _convert_value); a run that yields nothing leaves the checkpoint as it was.
Cursor(recs, cfg, st) ==
    IF cfg.replication_key /\ recs # <<>> /\ recs[Len(recs)].rk # NoVal
      THEN ConvertValue(recs[Len(recs)].rk, cfg.replication_key_type)
      ELSE st

Checkpoint ==
    /\ pc = "done"
    /\ runs < MaxRuns
    /\ state' = Cursor(yielded, config, state)
    /\ runs' = runs + 1
    /\ pc' = "idle"
    /\ UNCHANGED <<starting_value, total_extracted, last_doc, batch_limit, docs, idx,
                   yielded, nqueries, lastQuery, everYielded>>
    /\ UNCHANGED <<collection, config, stable, writes, auxVars>>

RunsInit == Init /\ state = NoState

RunsNext == Next \/ Checkpoint

RunsSpec == RunsInit /\ [][RunsNext]_vars

(* ---- what a run is measured against --------------------------------------- *)
Filtered == ResumeFilterApplied(config.replication_key, starting_value)

\* The documents of the store the run's base query matches.
MatchSet ==
    {i \in Ids : collection[i] # NoDoc
                 /\ (Filtered => FieldFilter(collection[i], starting_value))}

\* Those of them that have a body (to_dict() is not None).
BodiedSet == {i \in MatchSet : collection[i].body # "absent"}

Started == pc \in {"loop", "batch", "done"}
RangeOf(seq) == {seq[k] : k \in 1..Len(seq)}
MaxOf(S) == CHOOSE i \in S : \A j \in S : j <= i
CeilDiv(n, b) == (n + b - 1) \div b

(* ---- C1 ------------------------------------------------------------------- *)
C1_Case == pc = "done" /\ ~HasLimit(config) /\ BodiedSet = MatchSet

\* C1 (as stated): a finished run without a limit over N documents, all with a
\* body, has issued exactly ceil(N/B) batch queries, yielded N documents and
\* ended on a batch smaller than B.
C1_CeilBatches ==
    C1_Case =>
        /\ nqueries = CeilDiv(Cardinality(MatchSet), config.batch_size)
        /\ Len(yielded) = Cardinality(MatchSet)
        /\ lastQuery.size < config.batch_size

\* C1 (amended): a finished run without a limit over N documents, all with a
\* body, has issued exactly floor(N/B) + 1 batch queries, yielded exactly the N
\* documents and ended on the first batch smaller than B (the last one issued).
C1_FloorPlusOneBatches ==
    C1_Case =>
        /\ nqueries = (Cardinality(MatchSet) \div config.batch_size) + 1
        /\ Len(yielded) = Cardinality(MatchSet)
        /\ {d.id : d \in RangeOf(yielded)} = MatchSet
        /\ lastQuery.size < config.batch_size

C1_Witness ==
    /\ C1_Case
    /\ config.batch_size = 2
    /\ Cardinality(MatchSet) = 2
    /\ nqueries = 2
    /\ Len(yielded) = 2

(* ---- C2 ------------------------------------------------------------------- *)
C2_Case == Started /\ HasLimit(config) /\ Cardinality(BodiedSet) > config.limit

\* C2: with a limit L and more than L matching documents, a run never yields
\* more than L documents and ends with exactly L; every batch query asks for at
\* most min(batch_size, L - yielded so far) documents, and no query is issued
\* once L documents have been yielded.
C2_LimitEnforced ==
    C2_Case =>
        /\ Len(yielded) <= config.limit
        /\ pc = "done" => Len(yielded) = config.limit
        /\ nqueries > 0 =>
              /\ lastQuery.before < config.limit
              /\ lastQuery.limit <= Min(config.batch_size, config.limit - lastQuery.before)

C2_Witness ==
    /\ C2_Case
    /\ pc = "done"
    /\ config.limit = 2
    /\ config.batch_size = 2
    /\ Len(yielded) = 2
    /\ nqueries = 1

(* ---- C3 ------------------------------------------------------------------- *)
\* C3: with a replication key and a stored cursor value V, every yielded
\* document that has the key has a value strictly greater than V.
C3_StrictlyGreaterThanStored ==
    (Started /\ config.replication_key /\ state.kind # "none") =>
        \A k \in 1..Len(yielded) :
            yielded[k].rk # NoVal => yielded[k].rk > state.v

(* ---- C4 ------------------------------------------------------------------- *)
C4_Case ==
    /\ pc = "done"
    /\ config.replication_key
    /\ ~HasLimit(config)
    /\ MatchSet # {}
    /\ \A i \in MatchSet : collection[i].body = "data"

\* C4 (as stated): the records of such a run come in increasing order of their
\* replication-key value, and the cursor after the last one is the largest
\* replication-key value of the collection.
C4_IncreasingKeyOrder ==
    C4_Case =>
        /\ \A j, k \in 1..Len(yielded) : j < k => yielded[j].rk <= yielded[k].rk
        /\ \A i \in MatchSet : collection[i].rk <= yielded[Len(yielded)].rk

\* C4 (amended): the records of a run come in strictly increasing order of
\* document identity, and after a run with a replication key and no limit the
\* last record, whose key value the cursor takes, is the document with the
\* largest identity.
C4_IncreasingIdentityOrder ==
    /\ \A j, k \in 1..Len(yielded) : j < k => yielded[j].id < yielded[k].id
    /\ C4_Case =>
          /\ yielded # <<>>
          /\ yielded[Len(yielded)] = collection[MaxOf(MatchSet)]
          /\ Cursor(yielded, config, state) =
                ConvertValue(collection[MaxOf(MatchSet)].rk, config.replication_key_type)

C4_Witness ==
    /\ C4_Case
    /\ config.batch_size = 2
    /\ Len(yielded) = 3
    /\ yielded[1].rk > yielded[3].rk

(* ---- C5 ------------------------------------------------------------------- *)
Processed == IF pc = "batch" THEN {docs[k] : k \in 1..(idx - 1)} ELSE {}

C9_RunTerminates == <>(pc \in {"done", "failed"})

(* ---- C10 ------------------------------------------------------------------ *)
\* C10: between successive runs under a limit over documents with distinct
\* replication-key values, every document whose value is at or below the stored
\* cursor has been yielded by some run (a later run, filtering above the
\* cursor, cannot yield it).
C10_NothingBelowCursorLeftBehind ==
    (/\ pc = "idle"
     /\ runs > 0
     /\ config.replication_key
     /\ HasLimit(config)
     /\ state.kind # "none"
     /\ \A i \in Ids : collection[i] # NoDoc => collection[i].body = "data"
     /\ \A i, j \in Ids :
           (i # j /\ collection[i] # NoDoc /\ collection[j] # NoDoc) =>
               collection[i].rk # collection[j].rk) =>
        \A i \in Ids :
            (collection[i] # NoDoc /\ collection[i].rk <= state.v) => i \in everYielded

(* ---- other writers during a run ------------------------------------------- *)
\* The documents another client can create.
Writable(i) ==
    {Snapshot(i, "data", v) : v \in (IF config.replication_key THEN Vals ELSE {NoVal})}

\* Another client creates a document between two batch queries of the run.
InsertDoc ==
    /\ pc = "loop"
    /\ writes < MaxWrites
    /\ \E i \in Ids : \E d \in Writable(i) :
          /\ collection[i] = NoDoc
          /\ collection' = [collection EXCEPT ![i] = d]
          /\ stable' = stable \ {i}
    /\ writes' = writes + 1
    /\ UNCHANGED <<pagVars, config, state, runs, auxVars>>

\* Another client deletes a document between two batch queries of the run.
DeleteDoc ==
    /\ pc = "loop"
    /\ writes < MaxWrites
    /\ \E i \in Ids :
          /\ collection[i] # NoDoc
          /\ collection' = [collection EXCEPT ![i] = NoDoc]
          /\ stable' = stable \ {i}
    /\ writes' = writes + 1
    /\ UNCHANGED <<pagVars, config, state, runs, auxVars>>

ConcNext == Next \/ InsertDoc \/ DeleteDoc

\* The runs followed under concurrent writes: no limit, every document has a
\* non-empty body.
ConcInit ==
    /\ Init
    /\ ~HasLimit(config)
    /\ \A i \in Ids : collection[i].body \in {"none", "data"}

ConcSpec == ConcInit /\ [][ConcNext]_vars

(* ---- C6 ------------------------------------------------------------------- *)
\* The documents that were there when the run started, were never written
\* since, match the run's filter and have a body.
StableMatching == {i \in stable \cap MatchSet : collection[i].body # "absent"}

\* C6: with other clients inserting and deleting documents between the batch
\* queries, no document is yielded twice in a run, and a run that ends before
\* its limit is used up has yielded every document that was there, matching
\* and untouched, from its start to its end.
C6_OnceUnderWrites ==
    /\ \A j, k \in 1..Len(yielded) : j < k => yielded[j].id # yielded[k].id
    /\ (pc = "done" /\ ~QuotaExhausted(config, total_extracted)) =>
          \A i \in StableMatching :
              Cardinality({k \in 1..Len(yielded) : yielded[k] = collection[i]}) = 1

C6_Witness ==
    /\ pc = "done"
    /\ writes = 1
    /\ StableMatching # {}
    /\ \E k \in 1..Len(yielded) :
          yielded[k].id \notin stable /\ collection[yielded[k].id] = yielded[k]

(* ---- _get_firestore_client on its own -------------------------------------- *)
\* Lines 231-276, called once for a configuration.
BuildClient ==
    /\ client = NoClient
    /\ client' = GetFirestoreClient(creds)
    /\ UNCHANGED <<pagVars, envVars, creds, streams, rec>>

ClientInit ==
    /\ creds \in CredConfigs
    /\ client = NoClient
    /\ rec = NoRec
    /\ streams = <<>>
    /\ config = [batch_size |-> 1, limit |-> 0, replication_key |-> FALSE,
                 replication_key_type |-> "timestamp"]
    /\ collection = [i \in Ids |-> NoDoc]
    /\ state = NoState
    /\ InitRun

ClientNext == BuildClient

ClientSpec == ClientInit /\ [][ClientNext]_vars

(* ---- C8 ------------------------------------------------------------------- *)
Sources == {k \in {"path", "json", "base64"} : Given(creds[k])}

\* C8 (as stated): the client is built from the first configured source in the
\* order path, inline JSON, base64; from the ambient default only when none is
\* configured.
C8_PathFirst ==
    client # NoClient =>
        client.source =
            IF "path" \in Sources THEN "path"
            ELSE IF "json" \in Sources THEN "json"
            ELSE IF "base64" \in Sources THEN "base64"
            ELSE "default"

\* C8 (amended): the client is built from exactly one source, the first
\* configured one in the order base64, inline JSON, path; from the ambient
\* default only when none is configured.
C8_Base64First ==
    client # NoClient =>
        /\ client.source =
              IF "base64" \in Sources THEN "base64"
              ELSE IF "json" \in Sources THEN "json"
              ELSE IF "path" \in Sources THEN "path"
              ELSE "default"
        /\ client.source = "default" <=> Sources = {}
        /\ client.status = "ok" <=>
              (Sources = {} \/ creds[client.source] \in {"valid", "escaped"})

C8_Witness ==
    /\ client.status = "ok"
    /\ client.source = "base64"
    /\ creds.path = "valid"
    /\ creds.json = "malformed"
    /\ creds.base64 = "escaped"

(* ---- the schema property --------------------------------------------------- *)
\* schema_config as given to the constructor: None, an empty mapping, or a
\* mapping with at least one field.
SchemaConfigs == {"none", "empty", "fields"}

NoStream == [schema_config |-> "none", cache |-> "absent", samples |-> 0,
             builds |-> 0, reads |-> 0]

\* FirestoreStream.__init__: no _schema_cache attribute yet.
NewStream(sc) == [schema_config |-> sc, cache |-> "unset", samples |-> 0,
                  builds |-> 0, reads |-> 0]

\* hasattr(self, "_schema_cache")
SchemaNeverCached(s) == FALSE

SchemaCached(s) == s.cache # "unset"

\* if self.schema_config: (None and {} are falsy)
UsesSchemaConfig(sc) == sc = "fields"

\* TapFirestore.discover_streams: one stream per configured collection, none
\* of them given a schema_config.
DiscoverStreams ==
    /\ \A i \in 1..MaxStreams : streams[i] = NoStream
    /\ \E n \in 1..MaxStreams :
          streams' = [i \in 1..MaxStreams |->
                        IF i <= n THEN NewStream("none") ELSE NoStream]
    /\ UNCHANGED <<pagVars, envVars, creds, client, rec>>

\* A stream constructed directly, with any schema_config.
ConstructStream ==
    /\ \E i \in 1..MaxStreams : \E sc \in SchemaConfigs :
          /\ streams[i] = NoStream
          /\ streams' = [streams EXCEPT ![i] = NewStream(sc)]
    /\ UNCHANGED <<pagVars, envVars, creds, client, rec>>

\* A later read of the schema property: the cached schema is returned.
ReadCachedSchema ==
    /\ \E i \in 1..MaxStreams :
          /\ streams[i] # NoStream
          /\ streams[i].reads < MaxReads
          /\ SchemaCached(streams[i])
          /\ streams' = [streams EXCEPT ![i].reads = @ + 1]
    /\ UNCHANGED <<pagVars, envVars, creds, client, rec>>

\* A read that builds the schema from schema_config (_build_schema_from_config).
BuildSchemaFromConfig ==
    /\ \E i \in 1..MaxStreams :
          /\ streams[i] # NoStream
          /\ streams[i].reads < MaxReads
          /\ ~SchemaCached(streams[i])
          /\ UsesSchemaConfig(streams[i].schema_config)
          /\ streams' = [streams EXCEPT ![i].reads = @ + 1, ![i].builds = @ + 1,
                                        ![i].cache = "config"]
    /\ UNCHANGED <<pagVars, envVars, creds, client, rec>>

\* A read that builds the schema by sampling (_discover_schema): the client is
\* built, then the sampling query is issued; a failure of either is caught and
\* leaves the minimal schema.
DiscoverSchema ==
    /\ \E i \in 1..MaxStreams :
          /\ streams[i] # NoStream
          /\ streams[i].reads < MaxReads
          /\ ~SchemaCached(streams[i])
          /\ ~UsesSchemaConfig(streams[i].schema_config)
          /\ client' = GetFirestoreClient(creds)
          /\ IF client'.status = "error"
               THEN streams' = [streams EXCEPT ![i].reads = @ + 1, ![i].builds = @ + 1,
                                               ![i].cache = "minimal"]
               ELSE \E outcome \in {"sampled", "minimal"} :
                      streams' = [streams EXCEPT ![i].reads = @ + 1,
                                                 ![i].builds = @ + 1,
                                                 ![i].samples = @ + 1,
                                                 ![i].cache = outcome]
    /\ UNCHANGED <<pagVars, envVars, creds, rec>>

SchemaInit ==
    /\ streams = [i \in 1..MaxStreams |-> NoStream]
    /\ creds \in {NoCreds, [NoCreds EXCEPT !.json = "malformed"]}
    /\ client = NoClient
    /\ rec = NoRec
    /\ config = [batch_size |-> 1, limit |-> 0, replication_key |-> FALSE,
                 replication_key_type |-> "timestamp"]
    /\ collection = [i \in Ids |-> NoDoc]
    /\ state = NoState
    /\ InitRun

SchemaNext ==
    \/ DiscoverStreams
    \/ ConstructStream
    \/ ReadCachedSchema
    \/ BuildSchemaFromConfig
    \/ DiscoverSchema

SchemaSpec == SchemaInit /\ [][SchemaNext]_vars

YieldRecord ==
    /\ rec.status = "fetched"
    /\ rec' = IF rec.absent
                THEN [rec EXCEPT !.status = "skipped"]
                ELSE [rec EXCEPT !.status = "yielded",
                                 !.record = BuildRecord(rec.id, rec.body, rec.now)]
    /\ UNCHANGED <<pagVars, envVars, creds, client, streams>>

RecordInit ==
    /\ \E i \in Ids : \E a \in BOOLEAN : \E b \in Bodies : \E t \in 1..MaxTime :
          /\ a => b = NoBody
          /\ rec = [status |-> "fetched", id |-> i, absent |-> a, body |-> b, now |-> t,
                    record |-> NoBody]
    /\ creds = NoCreds
    /\ client = NoClient
    /\ streams = <<>>
    /\ config = [batch_size |-> 1, limit |-> 0, replication_key |-> FALSE,
                 replication_key_type |-> "timestamp"]
    /\ collection = [i \in Ids |-> NoDoc]
    /\ state = NoState
    /\ InitRun

RecordNext == YieldRecord

RecordSpec == RecordInit /\ [][RecordNext]_vars

(* ---- C11 ------------------------------------------------------------------ *)
\* C11: in every yielded record _id is the identity of the source document and
\* _sdc_extracted_at is the extraction timestamp, whatever fields the body has.
C11_SyntheticFieldsKept ==
    rec.status = "yielded" =>
        /\ rec.record["_id"] = RawValue(rec.id)
        /\ rec.record["_sdc_extracted_at"] = GetCurrentTimestamp(rec.now)

====
